---- MODULE Spec2Model ----
(***************************************************************************)
(* Ingestion pipeline of Integrated_NWB_adaptive_attributes:               *)
(*   pipeline/nwb_adapter.py    the three file-backed attribute adapters   *)
(*                              (put = encode, get = decode), _write_nwb   *)
(*   pipeline/intracellular.py  MembranePotential.make, CurrentInjection   *)
(*   pipeline/behavior.py       LickTrace.make                             *)
(*                                                                         *)
(* A run is one Python process executing one call at a time (a Session     *)
(* insert, a make, or a fetch of a series column); pc[r] is its position   *)
(* inside that call.  Spec has one run (the batch-sequential scheduling    *)
(* of the design), SpecConc has two runs working against the same          *)
(* filesystem and relational store.                                        *)
(***************************************************************************)
EXTENDS Integers, Sequences, FiniteSets, TLC

VARIABLES procs, dir, fs, rows, started, pc, loc

vars == <<procs, dir, fs, rows, started, pc, loc>>

----------------------------------------------------------------------------
(* Bounds of the model *)

\* number of calls (inserts, makes, fetches) started over a behaviour
MaxTasks == 3
\* longest raw timestamp array read from a source file
MaxLen == 2

----------------------------------------------------------------------------
(* Keys and inputs *)

None == "None"

Sessions == {"s1"}

\* Cell keys: (Session, cell_id); two cells recorded in the same session
CellKeys == { [sess |-> "s1", cell |-> "c1"],
              [sess |-> "s1", cell |-> "c2"] }

SessionKey(s) == [sess |-> s, cell |-> "-"]

\* candidate source files of the data directory, each with the session it matches
SrcFiles == { <<"s1", "a">>, <<"s1", "b">> }

\* raw timestamp arrays a source file may hold (empty, one sample, or more;
\* equal and decreasing samples included)
Times == {0, 1}
TsInputs == UNION { [1..n -> Times] : n \in 0..MaxLen }

\* identifier attribute of the NWB file of a session
Identifier(s) == "id_" \o s

\* typed objects a session NWB file may already contain when it is registered
PreObjs == { <<>>,
             << [type |-> "PatchClampSeries", name |-> "pre", cell |-> "-"] >> }

----------------------------------------------------------------------------
(* nwb_adapter.py: store directories *)

nwb_session_dir == "stage/session"
nwb_mp_dir == "stage/membrane_potential"

----------------------------------------------------------------------------
(* Pure helpers *)

RECURSIVE SumSeq(_)
SumSeq(xs) == IF xs = <<>> THEN 0 ELSE Head(xs) + SumSeq(Tail(xs))

RECURSIVE Gcd(_, _)
Gcd(a, b) == IF b = 0 THEN a ELSE Gcd(b, a % b)

Abs(a) == IF a < 0 THEN -a ELSE a

NaN == [kind |-> "NaN", num |-> 0, den |-> 0]
Inf == [kind |-> "Inf", num |-> 0, den |-> 0]

\* a finite float as a reduced fraction with positive denominator
Num(n, d) ==
    LET g == Gcd(Abs(n), Abs(d))
        s == IF d < 0 THEN -1 ELSE 1
    IN [kind |-> "Num", num |-> (s * n) \div g, den |-> (s * d) \div g]

\* np.diff
Diff(ts) == [i \in 1..(Len(ts) - 1) |-> ts[i + 1] - ts[i]]

\* np.mean: the mean of an empty array is NaN (a warning, no exception)
Mean(xs) == IF Len(xs) = 0 THEN NaN ELSE Num(SumSeq(xs), Len(xs))

\* 1 / x on numpy floats: 1/NaN = NaN, 1/0.0 = inf (a warning, no exception)
Recip(x) ==
    IF x.kind = "NaN" THEN NaN
    ELSE IF x.kind = "Inf" THEN Num(0, 1)
    ELSE IF x.num = 0 THEN Inf
    ELSE Num(x.den, x.num)

\* 1 / np.mean(np.diff(time_stamps))
SamplingRate(ts) == Recip(Mean(Diff(ts)))

\* utilities.find_session_matched_nwbfile: the single matching file, or None
Locate(d, s) ==
    LET m == { f \in d : f[1] = s }
    IN IF Cardinality(m) = 1 THEN CHOOSE f \in m : TRUE ELSE None

\* [obj for obj in nwb.objects.values() if obj.neurodata_type == tag]
Matches(objs, tag) == SelectSeq(objs, LAMBDA o : o.type = tag)

\* ...[0]: the first match, unconditionally
Extract(objs, tag) == Head(Matches(objs, tag))

SeriesKinds == {"mp", "ci"}
MakeKinds == {"lick", "mp", "ci"}

\* neurodata type handled by the adapter of each derived-series column
TypeTag(kind) == IF kind = "mp" THEN "PatchClampSeries" ELSE "CurrentClampStimulusSeries"

\* name given to the series built by the make of each kind
SeriesName(kind) == IF kind = "mp" THEN "membrane_potential" ELSE "CurrentClampStimulus"

\* NWBFile.put: save_fp
SessionPath(nwb) == nwb_session_dir \o "/" \o nwb.identifier \o ".nwb"

\* PatchClampSeries.put / CurrentClampStimulusSeries.put: save_fp
SeriesPath(nwb, kind) ==
    nwb_mp_dir \o "/" \o nwb.identifier \o "_" \o Extract(nwb.objs, TypeTag(kind)).name \o ".nwb"

SavePath(nwb, kind) == IF kind = "session" THEN SessionPath(nwb) ELSE SeriesPath(nwb, kind)

\* no manager (None)
NoMgr == <<>>

\* the manager NWBHDF5IO builds for itself when it is given none: a new object
\* at every construction, named here by the call and the io that built it
NewManager(serial, mode) == <<serial, mode>>

\* NWBHDF5IO(..., manager=m).manager
IoManager(m, serial, mode) == IF m = NoMgr THEN NewManager(serial, mode) ELSE m

\* variant: put forgets to pass the container's manager and lets the writer build its own
PutManager_OwnManager(nwb, kind) == NoMgr

\* manager handed to NWBHDF5IO by put: None for NWBFile.put, nwb.io.manager otherwise
PutManager(nwb, kind) == IF kind = "session" THEN NoMgr ELSE nwb.io

\* keys of the rows of a table
HasRow(rs, table, key) == \E row \in rs : row.table = table /\ row.key = key

RowOf(rs, table, key) == CHOOSE row \in rs : row.table = table /\ row.key = key

----------------------------------------------------------------------------
(* State *)

NoNwb == [identifier |-> "", objs |-> <<>>, io |-> NoMgr]

Loc0 == [ kind  |-> None,      \* which call the run executes
          serial |-> 0,        \* its number among the calls started
          key   |-> SessionKey("s1"),
          src   |-> "none",    \* h5 source file handle: none / open / closed
          n     |-> 0,         \* number of raw timestamps read
          start |-> 0,
          rate  |-> NaN,
          obj   |-> NoNwb,     \* the in-memory NWB container handed to put
          gmgr  |-> NoMgr,         \* manager of the io opened by NWBFile.get
          fp    |-> None,      \* save_fp of the put in progress
          wmgr  |-> NoMgr,         \* manager of the io writing save_fp
          enc   |-> "no",      \* put: no / ok / failed
          dup   |-> FALSE,     \* the key had a row when the call began
          err   |-> None,      \* exception that reached the caller
          got   |-> None ]     \* object returned by a series get

InitCommon ==
    /\ dir \in SUBSET SrcFiles
    /\ fs = << >>
    /\ rows = {}
    /\ started = 0

Init ==
    /\ procs = {1}
    /\ InitCommon
    /\ pc = [r \in procs |-> "idle"]
    /\ loc = [r \in procs |-> Loc0]

InitConc ==
    /\ procs = {1, 2}
    /\ InitCommon
    /\ pc = [r \in procs |-> "idle"]
    /\ loc = [r \in procs |-> Loc0]

\* filesystem helpers: fs is a function from the existing paths to file contents
Exists(f, p) == p \in DOMAIN f

WriteFile(f, p, c) == [q \in (DOMAIN f) \cup {p} |-> IF q = p THEN c ELSE f[q]]

Unlink(f, p) == [q \in (DOMAIN f) \ {p} |-> f[q]]

\* a file opened in mode 'w': created or truncated, nothing written yet
Partial(r) == [done |-> FALSE, identifier |-> "", objs |-> <<>>, mgr |-> NoMgr, by |-> r]

Complete(r, nwb, m) ==
    [done |-> TRUE, identifier |-> nwb.identifier, objs |-> nwb.objs, mgr |-> m, by |-> r]

Readable(f, p) == Exists(f, p) /\ f[p].done

----------------------------------------------------------------------------
(* Session registration: the Session row's nwb_file column goes through     *)
(* NWBFile.put                                                              *)

\* insert1 of a Session row whose nwb_file is a container built by the caller
StartSession(r, s, pre) ==
    /\ pc[r] = "idle"
    /\ started < MaxTasks
    /\ started' = started + 1
    /\ loc' = [loc EXCEPT ![r] =
                 [Loc0 EXCEPT !.kind = "session", !.serial = started + 1,
                              !.key = SessionKey(s),
                              !.dup = HasRow(rows, "session", SessionKey(s)),
                              !.obj = [identifier |-> Identifier(s), objs |-> pre, io |-> NoMgr]]]
    /\ pc' = [pc EXCEPT ![r] = "put"]
    /\ UNCHANGED <<procs, dir, fs, rows>>

----------------------------------------------------------------------------
(* make, steps 1-3: locate, open, read *)

\* keys a make may be called with: the parent rows exist (foreign keys)
MakeKeys(kind) ==
    IF kind = "lick"
    THEN { SessionKey(s) : s \in { t \in Sessions : HasRow(rows, "session", SessionKey(t)) } }
    ELSE { k \in CellKeys : HasRow(rows, "session", SessionKey(k.sess)) }

\* variant: the None check is missing and the make goes on to open a file
MakeNotFound_NoCheck(r, kind, key) ==
    /\ pc[r] = "idle"
    /\ started < MaxTasks
    /\ key \in MakeKeys(kind)
    /\ Locate(dir, key.sess) = None
    /\ started' = started + 1
    /\ loc' = [loc EXCEPT ![r] =
                 [Loc0 EXCEPT !.kind = kind, !.serial = started + 1, !.key = key,
                              !.dup = HasRow(rows, kind, key),
                              !.src = "open"]]
    /\ pc' = [pc EXCEPT ![r] = "opened"]
    /\ UNCHANGED <<procs, dir, fs, rows>>

\* find_session_matched_nwbfile returned None: raise FileNotFoundError
MakeNotFound(r, kind, key) ==
    /\ pc[r] = "idle"
    /\ started < MaxTasks
    /\ key \in MakeKeys(kind)
    /\ Locate(dir, key.sess) = None
    /\ started' = started + 1
    /\ loc' = [loc EXCEPT ![r] =
                 [Loc0 EXCEPT !.kind = kind, !.serial = started + 1, !.key = key,
                              !.dup = HasRow(rows, kind, key),
                              !.err = "FileNotFoundError"]]
    /\ pc' = [pc EXCEPT ![r] = "raised"]
    /\ UNCHANGED <<procs, dir, fs, rows>>

\* a file was found: nwb = h5.File(path, 'r')
MakeOpen(r, kind, key) ==
    /\ pc[r] = "idle"
    /\ started < MaxTasks
    /\ key \in MakeKeys(kind)
    /\ Locate(dir, key.sess) # None
    /\ started' = started + 1
    /\ loc' = [loc EXCEPT ![r] =
                 [Loc0 EXCEPT !.kind = kind, !.serial = started + 1, !.key = key,
                              !.dup = HasRow(rows, kind, key),
                              !.src = "open"]]
    /\ pc' = [pc EXCEPT ![r] = "opened"]
    /\ UNCHANGED <<procs, dir, fs, rows>>

\* time_stamps[0] on an empty array: IndexError, nothing after it runs
ReadEmpty(r) ==
    /\ pc[r] = "opened"
    /\ loc' = [loc EXCEPT ![r].err = "IndexError"]
    /\ pc' = [pc EXCEPT ![r] = "raised"]
    /\ UNCHANGED <<procs, dir, fs, rows, started>>

\* the arrays are read; start time and sampling rate are computed
ReadSource(r, ts) ==
    /\ pc[r] = "opened"
    /\ Len(ts) > 0
    /\ loc' = [loc EXCEPT ![r].n = Len(ts),
                          ![r].start = ts[1],
                          ![r].rate = SamplingRate(ts)]
    /\ pc' = [pc EXCEPT ![r] = IF loc[r].kind = "lick" THEN "insert" ELSE "build"]
    /\ UNCHANGED <<procs, dir, fs, rows, started>>

----------------------------------------------------------------------------
(* make, step 4: the derived container *)

\* objects added to the copy: device, electrode, the series
Derived(kind, key) ==
    << [type |-> "Device", name |-> "dev", cell |-> key.cell],
       [type |-> "IntracellularElectrode", name |-> key.cell, cell |-> key.cell],
       [type |-> TypeTag(kind), name |-> SeriesName(kind), cell |-> key.cell] >>

\* io handle stitched onto the copy: that of the container it was copied from
CopyIo(sess_nwb) == sess_nwb.io

\* NWBFile.get: a new io (and so a new manager) on the stored path
NWBFileGet(f, path, m) ==
    [identifier |-> f[path].identifier, objs |-> f[path].objs, io |-> m]

\* the stored session file cannot be read: the fetch of nwb_file raises
BuildFail(r) ==
    /\ pc[r] = "build"
    /\ ~Readable(fs, RowOf(rows, "session", SessionKey(loc[r].key.sess)).path)
    /\ loc' = [loc EXCEPT ![r].err = "OSError"]
    /\ pc' = [pc EXCEPT ![r] = "raised"]
    /\ UNCHANGED <<procs, dir, fs, rows, started>>

\* sess_nwb = fetch1('nwb_file'); copy; io = sess_nwb.io; create_device,
\* create_ic_electrode, add_acquisition
Build(r) ==
    /\ pc[r] = "build"
    /\ LET path == RowOf(rows, "session", SessionKey(loc[r].key.sess)).path
       IN /\ Readable(fs, path)
          /\ LET sess_nwb == NWBFileGet(fs, path, IoManager(NoMgr, loc[r].serial, "r"))
             IN loc' = [loc EXCEPT
                          ![r].gmgr = sess_nwb.io,
                          ![r].obj = [identifier |-> sess_nwb.identifier,
                                      objs |-> sess_nwb.objs \o Derived(loc[r].kind, loc[r].key),
                                      io |-> CopyIo(sess_nwb)]]
    /\ pc' = [pc EXCEPT ![r] = "put"]
    /\ UNCHANGED <<procs, dir, fs, rows, started>>

----------------------------------------------------------------------------
(* make, step 5: put and _write_nwb (called by insert1 before the row is    *)
(* sent to the store)                                                       *)

\* NWBHDF5IO(save_fp, mode='w', manager=...) creates or truncates the file
PutOpen(r) ==
    /\ pc[r] = "put"
    /\ LET p == SavePath(loc[r].obj, loc[r].kind)
           m == PutManager(loc[r].obj, loc[r].kind)
       IN /\ fs' = WriteFile(fs, p, Partial(r))
          /\ loc' = [loc EXCEPT ![r].fp = p,
                                ![r].wmgr = IoManager(m, loc[r].serial, "w")]
    /\ pc' = [pc EXCEPT ![r] = "writing"]
    /\ UNCHANGED <<procs, dir, rows, started>>

\* the constructor raises before the file is touched
PutOpenFail(r) ==
    /\ pc[r] = "put"
    /\ loc' = [loc EXCEPT ![r].fp = SavePath(loc[r].obj, loc[r].kind),
                          ![r].enc = "failed"]
    /\ pc' = [pc EXCEPT ![r] = "cleanup"]
    /\ UNCHANGED <<procs, dir, fs, rows, started>>

\* io.write returns and the with-block closes the file
WriteOk(r) ==
    /\ pc[r] = "writing"
    /\ fs' = WriteFile(fs, loc[r].fp, Complete(r, loc[r].obj, loc[r].wmgr))
    /\ loc' = [loc EXCEPT ![r].enc = "ok"]
    /\ pc' = [pc EXCEPT ![r] = "insert"]
    /\ UNCHANGED <<procs, dir, rows, started>>

\* io.write raises with part of the file written
WriteFail(r) ==
    /\ pc[r] = "writing"
    /\ loc' = [loc EXCEPT ![r].enc = "failed"]
    /\ pc' = [pc EXCEPT ![r] = "cleanup"]
    /\ UNCHANGED <<procs, dir, fs, rows, started>>

\* variant: the handler re-raises without deleting the file
Cleanup_NoUnlink(r) ==
    /\ pc[r] = "cleanup"
    /\ loc' = [loc EXCEPT ![r].err = "SerializationError"]
    /\ pc' = [pc EXCEPT ![r] = "raised"]
    /\ UNCHANGED <<procs, dir, fs, rows, started>>

\* variant: the handler deletes the file but does not re-raise, so put returns the path
Cleanup_Swallow(r) ==
    /\ pc[r] = "cleanup"
    /\ fs' = IF Exists(fs, loc[r].fp) THEN Unlink(fs, loc[r].fp) ELSE fs
    /\ pc' = [pc EXCEPT ![r] = "insert"]
    /\ UNCHANGED <<procs, dir, rows, started, loc>>

\* except Exception: if save_fp.exists(): save_fp.unlink(); raise e
Cleanup(r) ==
    /\ pc[r] = "cleanup"
    /\ fs' = IF Exists(fs, loc[r].fp) THEN Unlink(fs, loc[r].fp) ELSE fs
    /\ loc' = [loc EXCEPT ![r].err = "SerializationError"]
    /\ pc' = [pc EXCEPT ![r] = "raised"]
    /\ UNCHANGED <<procs, dir, rows, started>>

----------------------------------------------------------------------------
(* make, steps 6-7: the row, and closing the source file *)

NewRow(l) ==
    [table |-> l.kind, key |-> l.key,
     path |-> IF l.kind = "lick" THEN None ELSE l.fp,
     start |-> l.start, rate |-> l.rate]

\* position after a successful insert1: only the intracellular makes go on to nwb.close()
AfterInsert(kind) == IF kind \in SeriesKinds THEN "close" ELSE "done"

\* the store accepts the row
InsertRow(r) ==
    /\ pc[r] = "insert"
    /\ ~HasRow(rows, loc[r].kind, loc[r].key)
    /\ rows' = rows \cup {NewRow(loc[r])}
    /\ pc' = [pc EXCEPT ![r] = AfterInsert(loc[r].kind)]
    /\ UNCHANGED <<procs, dir, fs, started, loc>>

\* the store rejects a duplicate key; the error propagates unchanged
InsertDup(r) ==
    /\ pc[r] = "insert"
    /\ HasRow(rows, loc[r].kind, loc[r].key)
    /\ loc' = [loc EXCEPT ![r].err = "DuplicateError"]
    /\ pc' = [pc EXCEPT ![r] = "raised"]
    /\ UNCHANGED <<procs, dir, fs, rows, started>>

\* nwb.close(), the last statement of the intracellular makes
Close(r) ==
    /\ pc[r] = "close"
    /\ loc' = [loc EXCEPT ![r].src = "closed"]
    /\ pc' = [pc EXCEPT ![r] = "done"]
    /\ UNCHANGED <<procs, dir, fs, rows, started>>

----------------------------------------------------------------------------
(* Reading a series column back: PatchClampSeries.get,                      *)
(* CurrentClampStimulusSeries.get                                           *)

GetSeries(r, row) ==
    /\ pc[r] = "idle"
    /\ started < MaxTasks
    /\ row \in rows
    /\ row.table \in SeriesKinds
    /\ started' = started + 1
    /\ IF ~Readable(fs, row.path)
       THEN /\ loc' = [loc EXCEPT ![r] = [Loc0 EXCEPT !.kind = "get", !.serial = started + 1, !.key = row.key,
                                                      !.fp = row.path, !.err = "OSError"]]
            /\ pc' = [pc EXCEPT ![r] = "raised"]
       ELSE IF Len(Matches(fs[row.path].objs, TypeTag(row.table))) = 0
       THEN /\ loc' = [loc EXCEPT ![r] = [Loc0 EXCEPT !.kind = "get", !.serial = started + 1,
                                                      !.key = row.key,
                                                      !.fp = row.path, !.err = "IndexError"]]
            /\ pc' = [pc EXCEPT ![r] = "raised"]
       ELSE /\ loc' = [loc EXCEPT ![r] =
                         [Loc0 EXCEPT !.kind = "get", !.serial = started + 1,
                                      !.key = row.key, !.fp = row.path,
                                      !.obj = NWBFileGet(fs, row.path,
                                                         IoManager(NoMgr, started + 1, "r")),
                                      !.got = Extract(fs[row.path].objs, TypeTag(row.table))]]
            /\ pc' = [pc EXCEPT ![r] = "done"]
    /\ UNCHANGED <<procs, dir, fs, rows>>

\* the call has returned or raised; the run takes the next call
Finish(r) ==
    /\ pc[r] \in {"done", "raised"}
    /\ loc' = [loc EXCEPT ![r] = Loc0]
    /\ pc' = [pc EXCEPT ![r] = "idle"]
    /\ UNCHANGED <<procs, dir, fs, rows, started>>

----------------------------------------------------------------------------

AllKeys == CellKeys \cup { SessionKey(s) : s \in Sessions }

Next ==
    \/ \E r \in procs, s \in Sessions, pre \in PreObjs : StartSession(r, s, pre)
    \/ \E r \in procs, kind \in MakeKinds, key \in AllKeys : MakeNotFound(r, kind, key)
    \/ \E r \in procs, kind \in MakeKinds, key \in AllKeys : MakeOpen(r, kind, key)
    \/ \E r \in procs : ReadEmpty(r)
    \/ \E r \in procs, ts \in TsInputs : ReadSource(r, ts)
    \/ \E r \in procs : BuildFail(r)
    \/ \E r \in procs : Build(r)
    \/ \E r \in procs : PutOpen(r)
    \/ \E r \in procs : PutOpenFail(r)
    \/ \E r \in procs : WriteOk(r)
    \/ \E r \in procs : WriteFail(r)
    \/ \E r \in procs : Cleanup(r)
    \/ \E r \in procs : InsertRow(r)
    \/ \E r \in procs : InsertDup(r)
    \/ \E r \in procs : Close(r)
    \/ \E r \in procs, row \in rows : GetSeries(r, row)
    \/ \E r \in procs : Finish(r)

\* one run: one key is fully ingested before the next begins
Spec == Init /\ [][Next]_vars

\* two runs against the same filesystem and store
SpecConc == InitConc /\ [][Next]_vars

----------------------------------------------------------------------------
(* Properties *)

Finished(r) == pc[r] \in {"done", "raised"}

\* C1: when the write of a put fails (at construction of the writer or inside
\* io.write), the call does not continue: it goes through the handler and
\* raises, and when the error has reached the caller no file exists at save_fp.
C1_FailedEncodeLeavesNoFile ==
    \A r \in procs :
        loc[r].enc = "failed" =>
            /\ pc[r] \in {"cleanup", "raised"}
            /\ pc[r] = "raised" => (~Exists(fs, loc[r].fp) /\ loc[r].err = "SerializationError")

\* a put whose io.write failed after the file had been created has raised
C1_Witness ==
    \E r \in procs :
        pc[r] = "raised" /\ loc[r].enc = "failed" /\ loc[r].wmgr # NoMgr

\* C2: a step that adds a MembranePotential or CurrentInjection row is taken by
\* a run whose put has returned successfully, the row holds the path that put
\* returned and the file is completely written; a run whose put failed adds no row.
C2_CommitAfterWrite ==
    [][\A r \in procs :
          /\ \A row \in rows' \ rows :
                (row.table \in SeriesKinds /\ pc[r] = "insert" /\ pc'[r] # "insert") =>
                    /\ loc[r].enc = "ok"
                    /\ row.path = loc[r].fp
                    /\ Readable(fs, row.path)
          /\ (loc[r].enc = "failed" /\ pc[r] # pc'[r]) => rows' = rows
      ]_vars

\* a series row has just been inserted, after its put
C2_Witness ==
    \E r \in procs :
        /\ pc[r] = "close"
        /\ loc[r].enc = "ok"
        /\ HasRow(rows, loc[r].kind, loc[r].key)
        /\ ~loc[r].dup

C4_SourceHandleReleased ==
    \A r \in procs :
        (loc[r].kind \in MakeKinds /\ Finished(r)) => loc[r].src # "open"

\* C5: a make whose locator returns None raises FileNotFoundError in the same
\* step, without having opened a file, and leaves the rows and the files as they were.
C5_NotFoundNoEffect ==
    [][\A r \in procs :
          (/\ pc[r] = "idle"
           /\ pc'[r] # "idle"
           /\ loc'[r].kind \in MakeKinds
           /\ Locate(dir, loc'[r].key.sess) = None) =>
              /\ pc'[r] = "raised"
              /\ loc'[r].err = "FileNotFoundError"
              /\ loc'[r].src = "none"
              /\ rows' = rows
              /\ fs' = fs
      ]_vars

\* a make has failed on a missing source file while rows and files exist
C5_Witness ==
    \E r \in procs :
        /\ pc[r] = "raised"
        /\ loc[r].kind \in MakeKinds
        /\ loc[r].err = "FileNotFoundError"
        /\ rows # {}
        /\ DOMAIN fs # {}

\* C6: while a make runs for a key that already had a row, that row stays, and
\* the derived file at its path stays in place with the same content.
C6_ReingestLeavesFile ==
    [][\A r \in procs :
          (loc[r].kind \in SeriesKinds /\ loc[r].dup /\ HasRow(rows, loc[r].kind, loc[r].key)) =>
              LET row == RowOf(rows, loc[r].kind, loc[r].key)
              IN /\ row \in rows'
                 /\ Readable(fs, row.path) =>
                        (Exists(fs', row.path) /\ fs'[row.path] = fs[row.path])
      ]_vars

\* C7: a make that read fewer than two timestamps ends by raising, and no row
\* holds a sampling rate that is NaN or zero.
C7_ShortTimestampsRejected ==
    /\ \A r \in procs :
          (loc[r].kind \in MakeKinds /\ Finished(r) /\ loc[r].src # "none" /\ loc[r].n < 2) =>
              pc[r] = "raised"
    /\ \A row \in rows :
          row.table \in MakeKinds => (row.rate.kind # "NaN" /\ row.rate # Num(0, 1))

\* C8 as stated: the derived container is written with the manager the session
\* root container was written with by NWBFile.put.
C8_WrittenWithSessionWriteManager ==
    \A r \in procs :
        (loc[r].kind \in SeriesKinds /\ loc[r].wmgr # NoMgr) =>
            LET path == RowOf(rows, "session", SessionKey(loc[r].key.sess)).path
            IN Readable(fs, path) => loc[r].wmgr = fs[path].mgr

\* C8 amended: the derived container is written with the manager of the io that
\* NWBFile.get opened to read the session root container it was copied from,
\* and every completely written series file carries such a manager.
C8_WrittenWithSessionReadManager ==
    /\ \A r \in procs :
          (loc[r].kind \in SeriesKinds /\ loc[r].wmgr # NoMgr) =>
              (loc[r].wmgr = loc[r].gmgr /\ loc[r].gmgr = NewManager(loc[r].serial, "r"))
    /\ \A r \in procs :
          (loc[r].kind \in SeriesKinds /\ loc[r].enc = "ok" /\ pc[r] = "insert") =>
              fs[loc[r].fp].mgr = loc[r].gmgr

\* a derived container has been written by a series put
C8_Witness ==
    \E r \in procs :
        /\ loc[r].kind \in SeriesKinds
        /\ pc[r] = "insert"
        /\ loc[r].enc = "ok"
        /\ Readable(fs, loc[r].fp)

\* C9: a series put or get that picked a sub-object did so from a container
\* holding exactly one object of the adapter's type.
C9_ExtractOnlyWhenUnique ==
    \A r \in procs :
        /\ (loc[r].kind \in SeriesKinds /\ loc[r].fp # None) =>
               Len(Matches(loc[r].obj.objs, TypeTag(loc[r].kind))) = 1
        /\ (loc[r].kind = "get" /\ loc[r].got # None) =>
               Len(Matches(loc[r].obj.objs, loc[r].got.type)) = 1

\* C10: once two runs that both wrote the derived file of the same new key have
\* finished, one of them with a successful write, the key has exactly one row
\* and the file at the row's path exists and is completely written.
C10_BoundedDamage ==
    \A a \in procs, b \in procs :
        (/\ a # b
         /\ Finished(a) /\ Finished(b)
         /\ loc[a].kind \in SeriesKinds
         /\ loc[a].kind = loc[b].kind /\ loc[a].key = loc[b].key
         /\ ~loc[a].dup /\ ~loc[b].dup
         /\ loc[a].wmgr # NoMgr /\ loc[b].wmgr # NoMgr
         /\ loc[a].enc = "ok") =>
            /\ Cardinality({ row \in rows : row.table = loc[a].kind /\ row.key = loc[a].key }) = 1
            /\ Readable(fs, RowOf(rows, loc[a].kind, loc[a].key).path)

====
